---- MODULE Spec2Model ----
(***************************************************************************)
(* Library-management API (src/app/app.py): the pagination, search,       *)
(* filter and sort engine, the read endpoints that call it, and the       *)
(* create, update and delete endpoints that write the store.              *)
(*                                                                         *)
(* Text is a sequence of character codes (ASCII), so that lower(),        *)
(* substring search, int(), base64 and JSON are computed, not assumed.    *)
(* A Python value that can be of several types is a tagged record:        *)
(* [t |-> "None"], [t |-> "int", v |-> 5], [t |-> "str", v |-> <<..>>].   *)
(***************************************************************************)
EXTENDS Integers, Sequences, FiniteSets, TLC

VARIABLES books, op, args, res, wmode, wlimit, wcursor, wvisited, wdone, wcalls,
          threads

vars == <<books, op, args, res, wmode, wlimit, wcursor, wvisited, wdone, wcalls,
          threads>>

\* the last call and its result; the state of a client's walk over the pages
call == <<op, args, res>>
walk == <<wmode, wlimit, wcursor, wvisited, wdone, wcalls>>

(***************************************************************************)
(* Bounds of the model.                                                    *)
(***************************************************************************)
\* longest record sequence drawn for the store / the engine's input
MaxLen == 3
\* largest limit / size / page handed directly to a pagination function
MaxLimit == 3
\* most calls a cursor walk makes before the model stops following it
MaxCalls == 5
\* number of sample books in the store the write requests start from; the
\* store holds at most one book more
MaxStored == 2
\* largest quantity a create or update request gives
MaxQuantity == 1

(***************************************************************************)
(* Python values and small arithmetic.                                     *)
(***************************************************************************)
None == [t |-> "None"]
PyInt(n) == [t |-> "int", v |-> n]
PyStr(s) == [t |-> "str", v |-> s]
PyBool(b) == [t |-> "bool", v |-> b]

Min(a, b) == IF a < b THEN a ELSE b
Max(a, b) == IF a > b THEN a ELSE b

\* as CeilDiv, but rounding down (total // limit)
CeilDiv_floor(a, b) == a \div b

\* math.ceil(a / b) for a >= 0, b > 0
CeilDiv(a, b) == (a + b - 1) \div b

\* s[lo:hi] of Python: negative indices count from the end, both are clamped
PySlice(s, lo, hi) ==
    LET n == Len(s)
        l == IF lo < 0 THEN Max(lo + n, 0) ELSE Min(lo, n)
        h == IF hi < 0 THEN Max(hi + n, 0) ELSE Min(hi, n)
    IN IF l >= h THEN <<>> ELSE SubSeq(s, l + 1, h)

Reverse(s) == [i \in 1..Len(s) |-> s[Len(s) + 1 - i]]

(***************************************************************************)
(* Text: str.lower(), the `in` substring test, str(int), int(str).         *)
(***************************************************************************)
LowerChar(c) == IF c >= 65 /\ c <= 90 THEN c + 32 ELSE c
Lower(s) == [i \in 1..Len(s) |-> LowerChar(s[i])]

\* needle in hay
Contains(hay, needle) ==
    \E k \in 0..(Len(hay) - Len(needle)) :
        \A j \in 1..Len(needle) : hay[k + j] = needle[j]

IsDigit(c) == c >= 48 /\ c <= 57

RECURSIVE NatToStr(_)
NatToStr(n) == IF n < 10 THEN <<48 + n>>
               ELSE NatToStr(n \div 10) \o <<48 + (n % 10)>>
\* str(n), also the integer formatting of json.dumps and of f-strings
IntToStr(n) == IF n < 0 THEN <<45>> \o NatToStr(0 - n) ELSE NatToStr(n)

\* f'{n:04d}' for n >= 0
Pad4(n) == LET d == NatToStr(n)
           IN [i \in 1..(IF Len(d) < 4 THEN 4 - Len(d) ELSE 0) |-> 48] \o d

RECURSIVE DigitsVal(_)
DigitsVal(s) == IF Len(s) = 0 THEN 0
                ELSE 10 * DigitsVal(SubSeq(s, 1, Len(s) - 1)) + (s[Len(s)] - 48)

\* int(s) for a string s: an optional sign and decimal digits give
\* [ok |-> TRUE, v |-> n]; anything else is ValueError, [ok |-> FALSE].
\* (Surrounding whitespace and digit-group underscores, which int() also
\* accepts, are not among the strings the model draws.)
IntParse(s) ==
    LET body == IF Len(s) > 0 /\ s[1] \in {43, 45} THEN Tail(s) ELSE s
        neg  == Len(s) > 0 /\ s[1] = 45
    IN IF Len(body) > 0 /\ \A i \in 1..Len(body) : IsDigit(body[i])
       THEN [ok |-> TRUE, v |-> IF neg THEN 0 - DigitsVal(body) ELSE DigitsVal(body)]
       ELSE [ok |-> FALSE, v |-> 0]

(***************************************************************************)
(* base64.b64encode / base64.b64decode (default, non-validating mode).     *)
(***************************************************************************)
B64Char(v) == IF v < 26 THEN 65 + v
              ELSE IF v < 52 THEN 97 + (v - 26)
              ELSE IF v < 62 THEN 48 + (v - 52)
              ELSE IF v = 62 THEN 43 ELSE 47

\* the 6-bit value of a base64 character, 64 for a character outside the alphabet
B64Val(c) == IF c >= 65 /\ c <= 90 THEN c - 65
             ELSE IF c >= 97 /\ c <= 122 THEN c - 97 + 26
             ELSE IF c >= 48 /\ c <= 57 THEN c - 48 + 52
             ELSE IF c = 43 THEN 62
             ELSE IF c = 47 THEN 63 ELSE 64

RECURSIVE B64Encode(_)
B64Encode(b) ==
    IF Len(b) = 0 THEN <<>>
    ELSE IF Len(b) = 1 THEN
        <<B64Char(b[1] \div 4), B64Char((b[1] % 4) * 16), 61, 61>>
    ELSE IF Len(b) = 2 THEN
        <<B64Char(b[1] \div 4), B64Char((b[1] % 4) * 16 + (b[2] \div 16)),
          B64Char((b[2] % 16) * 4), 61>>
    ELSE
        <<B64Char(b[1] \div 4), B64Char((b[1] % 4) * 16 + (b[2] \div 16)),
          B64Char((b[2] % 16) * 4 + (b[3] \div 64)), B64Char(b[3] % 64)>>
        \o B64Encode(SubSeq(b, 4, Len(b)))

\* The decoder's scan: characters outside the alphabet are discarded, '='
\* ends the data once it completes a quad, and data that stops inside a quad
\* is binascii.Error.  q is the position in the quad, left the pending bits.
RECURSIVE B64Scan(_, _, _, _, _, _)
B64Scan(s, i, q, left, pads, out) ==
    IF i > Len(s) THEN [ok |-> q = 0, v |-> out]
    ELSE IF s[i] = 61 THEN
        IF q >= 2 /\ q + pads + 1 >= 4 THEN [ok |-> TRUE, v |-> out]
        ELSE B64Scan(s, i + 1, q, left, IF q >= 2 THEN pads + 1 ELSE pads, out)
    ELSE LET c == B64Val(s[i]) IN
        IF c = 64 THEN B64Scan(s, i + 1, q, left, pads, out)
        ELSE IF q = 0 THEN B64Scan(s, i + 1, 1, c, 0, out)
        ELSE IF q = 1 THEN
            B64Scan(s, i + 1, 2, c % 16, 0, Append(out, left * 4 + (c \div 16)))
        ELSE IF q = 2 THEN
            B64Scan(s, i + 1, 3, c % 4, 0, Append(out, left * 16 + (c \div 4)))
        ELSE B64Scan(s, i + 1, 0, 0, 0, Append(out, left * 64 + c))

\* base64.b64decode(s) of a str: non-ASCII text is ValueError
B64Decode(s) ==
    IF \E i \in 1..Len(s) : s[i] > 127 THEN [ok |-> FALSE, v |-> <<>>]
    ELSE B64Scan(s, 1, 0, 0, 0, <<>>)

(***************************************************************************)
(* json.dumps of {'id': n} and json.loads.  The parser covers whitespace,  *)
(* integers, strings without escapes, null / true / false, arrays and      *)
(* objects; of an object it keeps the number of members and the value of   *)
(* its "id" member, which is all decode_cursor reads.  Each step of the    *)
(* parser is an operator that takes what the steps before it have read.    *)
(***************************************************************************)
IdKey == <<105, 100>>

\* json.dumps({'id': n}) = {"id": n}
JsonDumpsId(n) == <<123, 34>> \o IdKey \o <<34, 58, 32>> \o IntToStr(n) \o <<125>>

IsWs(c) == c \in {32, 9, 10, 13}

RECURSIVE SkipWs(_, _)
SkipWs(s, i) == IF i <= Len(s) /\ IsWs(s[i]) THEN SkipWs(s, i + 1) ELSE i

RECURSIVE DigitsEnd(_, _)
DigitsEnd(s, i) == IF i <= Len(s) /\ IsDigit(s[i]) THEN DigitsEnd(s, i + 1) ELSE i

\* index of the closing quote of a string that opens before position i,
\* 0 if the string is unterminated or holds a control character or escape
RECURSIVE StrEnd(_, _)
StrEnd(s, i) == IF i > Len(s) THEN 0
                ELSE IF s[i] = 34 THEN i
                ELSE IF s[i] < 32 \/ s[i] = 92 THEN 0
                ELSE StrEnd(s, i + 1)

JFail == [ok |-> FALSE, val |-> None, next |-> 0]
JOk(v, n) == [ok |-> TRUE, val |-> v, next |-> n]
JDict(n, id) == [t |-> "dict", n |-> n, id |-> id]
JList(n) == [t |-> "list", n |-> n]
NoId == [has |-> FALSE, val |-> None]

HasPrefix(s, i, p) == i + Len(p) - 1 <= Len(s) /\ SubSeq(s, i, i + Len(p) - 1) = p

RECURSIVE JsonValue(_, _)
RECURSIVE JsonArray(_, _, _)
RECURSIVE JsonObject(_, _, _, _)

\* after an array element e: ',' and the next element, or ']'
JsonElementEnd(s, j, n) ==
    IF j > Len(s) THEN JFail
    ELSE IF s[j] = 44 THEN JsonArray(s, j + 1, n)
    ELSE IF s[j] = 93 THEN JOk(JList(n), j + 1)
    ELSE JFail

JsonElement(s, e, n) ==
    IF ~e.ok THEN JFail ELSE JsonElementEnd(s, SkipWs(s, e.next), n + 1)

\* the elements of an array from position i on; n elements were read before
JsonArray(s, i, n) == JsonElement(s, JsonValue(s, SkipWs(s, i)), n)

\* after a member: ',' and the next member's key, or '}'
JsonMemberEnd(s, j, n, id) ==
    IF j > Len(s) THEN JFail
    ELSE IF s[j] = 44 THEN JsonObject(s, SkipWs(s, j + 1), n, id)
    ELSE IF s[j] = 125 THEN JOk(JDict(n, id), j + 1)
    ELSE JFail

\* a member's value e read: the "id" member read last is the one kept
JsonMemberValue(s, key, e, n, id) ==
    IF ~e.ok THEN JFail
    ELSE JsonMemberEnd(s, SkipWs(s, e.next), n + 1,
                       IF key = IdKey THEN [has |-> TRUE, val |-> e.val] ELSE id)

JsonMemberColon(s, key, c, n, id) ==
    IF c > Len(s) \/ s[c] # 58 THEN JFail
    ELSE JsonMemberValue(s, key, JsonValue(s, SkipWs(s, c + 1)), n, id)

JsonMemberKey(s, k, ke, n, id) ==
    IF ke = 0 THEN JFail
    ELSE JsonMemberColon(s, SubSeq(s, k + 1, ke - 1), SkipWs(s, ke + 1), n, id)

\* the members of an object whose next key opens at k; n were read before
JsonObject(s, k, n, id) ==
    IF k > Len(s) \/ s[k] # 34 THEN JFail
    ELSE JsonMemberKey(s, k, StrEnd(s, k + 1), n, id)

JsonObjectOpen(s, k) ==
    IF k <= Len(s) /\ s[k] = 125 THEN JOk(JDict(0, NoId), k + 1)
    ELSE JsonObject(s, k, 0, NoId)

JsonArrayOpen(s, k) ==
    IF k <= Len(s) /\ s[k] = 93 THEN JOk(JList(0), k + 1)
    ELSE JsonArray(s, k, 0)

JsonString(s, i, e) ==
    IF e = 0 THEN JFail ELSE JOk(PyStr(SubSeq(s, i + 1, e - 1)), e + 1)

\* an integer whose digits are s[d..e-1]: at least one, no leading zero
JsonNumber(s, i, d, e) ==
    IF e = d \/ (e - d > 1 /\ s[d] = 48) THEN JFail
    ELSE JOk(PyInt(IntParse(SubSeq(s, i, e - 1)).v), e)

JsonNumberAt(s, i, d) == JsonNumber(s, i, d, DigitsEnd(s, d))

JsonValue(s, i) ==
    IF i > Len(s) THEN JFail
    ELSE IF s[i] = 123 THEN JsonObjectOpen(s, SkipWs(s, i + 1))
    ELSE IF s[i] = 91 THEN JsonArrayOpen(s, SkipWs(s, i + 1))
    ELSE IF s[i] = 34 THEN JsonString(s, i, StrEnd(s, i + 1))
    ELSE IF HasPrefix(s, i, <<110, 117, 108, 108>>) THEN JOk(None, i + 4)
    ELSE IF HasPrefix(s, i, <<116, 114, 117, 101>>) THEN JOk(PyBool(TRUE), i + 4)
    ELSE IF HasPrefix(s, i, <<102, 97, 108, 115, 101>>) THEN JOk(PyBool(FALSE), i + 5)
    ELSE JsonNumberAt(s, i, IF s[i] = 45 THEN i + 1 ELSE i)

\* one value e read from the start: nothing but whitespace may follow it
JsonWhole(s, e) ==
    IF e.ok /\ SkipWs(s, e.next) > Len(s) THEN [ok |-> TRUE, val |-> e.val]
    ELSE [ok |-> FALSE, val |-> None]

\* json.loads(text)
JsonLoads(s) == JsonWhole(s, JsonValue(s, SkipWs(s, 1)))

(***************************************************************************)
(* Cursor tokens.  A call's outcome is a record: err is "none" and v the   *)
(* value returned, or err names the exception raised.                      *)
(***************************************************************************)
Returns(v) == [err |-> "none", v |-> v]
Raises(e) == [err |-> e, v |-> None]

encode_cursor(book_id) == B64Encode(JsonDumpsId(book_id))

\* cursor_data.get('id') of the parsed text j: .get exists on objects only
CursorDataGet(j) ==
    IF ~j.ok THEN Raises("JSONDecodeError")
    ELSE IF j.val.t # "dict" THEN Raises("AttributeError")
    ELSE Returns(j.val.id.val)

\* .decode() of the decoded bytes b, then json.loads
CursorBytes(b) ==
    IF ~b.ok THEN Raises("binascii.Error")
    ELSE IF \E i \in 1..Len(b.v) : b.v[i] > 127 THEN Raises("UnicodeDecodeError")
    ELSE CursorDataGet(JsonLoads(b.v))

\* the try block of decode_cursor (b64decode(None) raises TypeError)
decode_cursor_try(cursor) ==
    IF cursor.t # "str" THEN Raises("TypeError")
    ELSE CursorBytes(B64Decode(cursor.v))

\* except: return None
CatchAll(r) == IF r.err # "none" THEN Returns(None) ELSE r

\* except ValueError: return None (binascii.Error, UnicodeDecodeError and
\* JSONDecodeError are ValueErrors, TypeError and AttributeError are not)
CatchValueError(r) ==
    IF r.err \in {"binascii.Error", "UnicodeDecodeError", "JSONDecodeError"}
    THEN Returns(None) ELSE r

\* as decode_cursor, but the except clause names ValueError
decode_cursor_except_ValueError(cursor) == CatchValueError(decode_cursor_try(cursor))

\* decode_cursor(cursor): the bare except turns every exception into None
decode_cursor(cursor) == CatchAll(decode_cursor_try(cursor))

(***************************************************************************)
(* Records.  A book is a record whose fields are the keys of the stored   *)
(* JSON object; the books of init_data carry every key, the books stored  *)
(* by create_book_v1 / create_book_v2 only six of them.                   *)
(***************************************************************************)
Categories == << <<80, 114, 111, 103, 114, 97, 109, 109, 105, 110, 103>>,
                 <<68, 97, 116, 97, 98, 97, 115, 101>>,
                 <<87, 101, 98, 32, 68, 101, 118, 101, 108, 111, 112, 109, 101, 110, 116>>,
                 <<65, 73, 47, 77, 76>>,
                 <<83, 101, 99, 117, 114, 105, 116, 121>> >>

\* A timestamp, as text whose order is the order of the days: "D" and the
\* day number in three digits.  Today is day 100.
Today == 100
IsoDay(d) == <<68>> \o SubSeq(Pad4(d), 2, 4)

\* the i-th sample book of init_data
SampleBook(i) ==
    [id          |-> i,
     isbn        |-> <<57, 55, 56, 45, 48, 45>> \o IntToStr(1000 + i) \o <<45>>
                     \o Pad4(i * 10) \o <<45>> \o IntToStr(i % 10),
     title       |-> <<66, 111, 111, 107, 32, 84, 105, 116, 108, 101, 32>> \o IntToStr(i),
     author      |-> <<65, 117, 116, 104, 111, 114, 32>> \o IntToStr(((i - 1) % 5) + 1),
     category    |-> Categories[(i % 5) + 1],
     publisher   |-> <<80, 117, 98, 108, 105, 115, 104, 101, 114, 32>>
                     \o IntToStr(((i - 1) % 3) + 1),
     publishYear |-> 2020 + (i % 5),
     quantity    |-> 5 + (i % 3),
     available   |-> 3 + (i % 3),
     price       |-> 100000 + (i * 10000),
     description |-> <<68, 101, 115, 99, 114, 105, 112, 116, 105, 111, 110, 32, 102,
                       111, 114, 32, 98, 111, 111, 107, 32>> \o IntToStr(i),
     createdAt   |-> IsoDay(Today - (100 - i)) \o <<90>>]

\* the record create_book_v1 / create_book_v2 appends to the store
NewBook(id, title, author, quantity) ==
    [id |-> id, title |-> title, author |-> author, quantity |-> quantity,
     available |-> quantity, createdAt |-> IsoDay(Today)]

Has(b, k) == k \in DOMAIN b

\* bool(v) of a Python value
Truthy(v) == CASE v.t = "None" -> FALSE
               [] v.t = "int"  -> v.v # 0
               [] v.t = "str"  -> Len(v.v) > 0
               [] v.t = "bool" -> v.v
               [] v.t = "list" -> v.n > 0
               [] v.t = "dict" -> v.n > 0

\* item['id'] == cursor_id for an integer id: Python's True equals 1, False 0
IdEquals(id, v) == \/ v.t = "int" /\ v.v = id
                   \/ v.t = "bool" /\ id = (IF v.v THEN 1 ELSE 0)

(***************************************************************************)
(* Pagination.                                                             *)
(***************************************************************************)
\* as paginate_offset, but with the slice of paginate_cursor, one record longer
paginate_offset_lookahead(items, limit, offset) ==
    [data |-> PySlice(items, offset, offset + limit + 1),
     pagination |->
        [total |-> Len(items),
         limit |-> limit,
         offset |-> offset,
         currentPage |-> IF limit > 0 THEN (offset \div limit) + 1 ELSE 1,
         totalPages |-> IF limit > 0 THEN CeilDiv(Len(items), limit) ELSE 1]]

paginate_offset(items, limit, offset) ==
    [data |-> PySlice(items, offset, offset + limit),
     pagination |->
        [total |-> Len(items),
         limit |-> limit,
         offset |-> offset,
         currentPage |-> IF limit > 0 THEN (offset \div limit) + 1 ELSE 1,
         totalPages |-> IF limit > 0 THEN CeilDiv(Len(items), limit) ELSE 1]]

\* the slice and the metadata of paginate_page, offset computed by its caller
PageResult(items, page, size, offset) ==
    [data |-> PySlice(items, offset, offset + size),
     page |->
        [number |-> page,
         size |-> size,
         totalElements |-> Len(items),
         totalPages |-> IF size > 0 THEN CeilDiv(Len(items), size) ELSE 1]]

\* as paginate_page, but the offset counts pages from 0
paginate_page_from_zero(items, page, size) == PageResult(items, page, size, page * size)

paginate_page(items, page, size) == PageResult(items, page, size, (page - 1) * size)

\* the least position in hits, 0 when there is none (the loop found no item)
FirstOrZero(hits) ==
    IF hits = {} THEN 0 ELSE CHOOSE i \in hits : \A j \in hits : i <= j

\* the position after the first item whose id equals cursor_id
IndexAfter(items, cursor_id) ==
    IF ~Truthy(cursor_id) THEN 0
    ELSE FirstOrZero({i \in 1..Len(items) : IdEquals(items[i].id, cursor_id)})

\* as StartIndex, but the loop keeps its last position when no item matches
StartIndex_past_end(items, cursor) ==
    IF ~Truthy(cursor) THEN 0
    ELSE IF IndexAfter(items, decode_cursor(cursor).v) = 0 THEN Len(items)
    ELSE IndexAfter(items, decode_cursor(cursor).v)

\* start_index of paginate_cursor: 0 when the cursor is empty, undecodable,
\* falsy or matches no item
StartIndex(items, cursor) ==
    IF ~Truthy(cursor) THEN 0 ELSE IndexAfter(items, decode_cursor(cursor).v)

\* next_cursor: the last record of a non-empty page that has a successor
NextCursor(has_next, paginated_items) ==
    IF has_next /\ Len(paginated_items) > 0
    THEN PyStr(encode_cursor(paginated_items[Len(paginated_items)].id))
    ELSE None

\* as PrevCursor, but only from the second position on
PrevCursor_after_first(items, start_index) ==
    IF start_index > 1 /\ items[start_index].id # 0
    THEN PyStr(encode_cursor(items[start_index].id))
    ELSE None

\* prev_cursor: the record before the page, if its id is truthy
PrevCursor(items, start_index) ==
    IF start_index > 0 /\ items[start_index].id # 0
    THEN PyStr(encode_cursor(items[start_index].id))
    ELSE None

CursorResult(items, start_index, limit, has_next, paginated_items) ==
    [data |-> paginated_items,
     pagination |->
        [nextCursor |-> NextCursor(has_next, paginated_items),
         prevCursor |-> PrevCursor(items, start_index),
         hasNext |-> has_next,
         hasPrev |-> start_index > 0,
         limit |-> limit]]

\* as CursorTrim, but has_next already when limit records were fetched
CursorTrim_at_limit(items, start_index, limit, fetched) ==
    CursorResult(items, start_index, limit, Len(fetched) >= limit,
                 IF Len(fetched) >= limit THEN PySlice(fetched, 0, limit) ELSE fetched)

\* the limit + 1 records fetched, trimmed to limit when there are more
CursorTrim(items, start_index, limit, fetched) ==
    CursorResult(items, start_index, limit, Len(fetched) > limit,
                 IF Len(fetched) > limit THEN PySlice(fetched, 0, limit) ELSE fetched)

CursorPage(items, start_index, limit) ==
    CursorTrim(items, start_index, limit,
               PySlice(items, start_index, start_index + limit + 1))

paginate_cursor(items, cursor, limit) ==
    CursorPage(items, StartIndex(items, cursor), limit)

(***************************************************************************)
(* Search and filter.  A list comprehension whose condition raises on     *)
(* some record raises at the first such record.                           *)
(***************************************************************************)
\* [b for b in s if P(b)], P giving "keep", "drop" or the exception raised
Comprehension(s, P(_)) ==
    IF \E i \in 1..Len(s) : P(s[i]) \notin {"keep", "drop"}
    THEN Raises(P(s[CHOOSE i \in 1..Len(s) :
                        /\ P(s[i]) \notin {"keep", "drop"}
                        /\ \A j \in 1..(i - 1) : P(s[j]) \in {"keep", "drop"}]))
    ELSE Returns(SelectSeq(s, LAMBDA b : P(b) = "keep"))

\* a comprehension over the result of the statement before it
Then(r, P(_)) == IF r.err # "none" THEN r ELSE Comprehension(r.v, P)

\* the condition of search_books on one book, query already lower-cased;
\* `or` stops at the first operand that is true
SearchMatch(book, query) ==
    IF ~Has(book, "title") THEN "KeyError"
    ELSE IF Contains(Lower(book.title), query) THEN "keep"
    ELSE IF ~Has(book, "author") THEN "KeyError"
    ELSE IF Contains(Lower(book.author), query) THEN "keep"
    ELSE IF ~Has(book, "isbn") THEN "KeyError"
    ELSE IF Contains(Lower(book.isbn), query) THEN "keep"
    ELSE IF Contains(Lower(IF Has(book, "description") THEN book.description ELSE <<>>),
                     query) THEN "keep"
    ELSE "drop"

search_books(bs, query) ==
    IF Len(query) = 0 THEN Returns(bs)
    ELSE Comprehension(bs, LAMBDA b : SearchMatch(b, Lower(query)))

\* the filter argument names and a filter spec with none of them set
FilterKeys == {"category", "author", "minYear", "maxYear", "available"}
NoFilters == [k \in FilterKeys |-> None]

CategoryMatch(b, f) ==
    IF ~Has(b, "category") THEN "KeyError"
    ELSE IF b.category = f.category.v THEN "keep" ELSE "drop"

AuthorMatch(b, f) ==
    IF ~Has(b, "author") THEN "KeyError"
    ELSE IF Contains(Lower(b.author), Lower(f.author.v)) THEN "keep" ELSE "drop"

\* b['publishYear'] >= int(filters['minYear']): the left operand first
MinYearMatch(b, f) ==
    IF ~Has(b, "publishYear") THEN "KeyError"
    ELSE IF ~IntParse(f.minYear.v).ok THEN "ValueError"
    ELSE IF b.publishYear >= IntParse(f.minYear.v).v THEN "keep" ELSE "drop"

MaxYearMatch(b, f) ==
    IF ~Has(b, "publishYear") THEN "KeyError"
    ELSE IF ~IntParse(f.maxYear.v).ok THEN "ValueError"
    ELSE IF b.publishYear <= IntParse(f.maxYear.v).v THEN "keep" ELSE "drop"

AvailableMatch(b) ==
    IF ~Has(b, "available") THEN "KeyError"
    ELSE IF b.available > 0 THEN "keep" ELSE "drop"

\* the five statements of filter_books, each on the result of the one before
FilterCategory(r, f) ==
    IF Truthy(f.category) THEN Then(r, LAMBDA b : CategoryMatch(b, f)) ELSE r

FilterAuthor(r, f) ==
    IF Truthy(f.author) THEN Then(r, LAMBDA b : AuthorMatch(b, f)) ELSE r

FilterMinYear(r, f) ==
    IF Truthy(f.minYear) THEN Then(r, LAMBDA b : MinYearMatch(b, f)) ELSE r

FilterMaxYear(r, f) ==
    IF Truthy(f.maxYear) THEN Then(r, LAMBDA b : MaxYearMatch(b, f)) ELSE r

FilterAvailable(r, f) ==
    IF Truthy(f.available) /\ Lower(f.available.v) = <<116, 114, 117, 101>>
    THEN Then(r, LAMBDA b : AvailableMatch(b)) ELSE r

filter_books(bs, filters) ==
    FilterAvailable(
        FilterMaxYear(
            FilterMinYear(
                FilterAuthor(
                    FilterCategory(Returns(bs), filters), filters), filters), filters),
        filters)

(***************************************************************************)
(* Sort.                                                                   *)
(***************************************************************************)
valid_fields == {"id", "title", "author", "publishYear", "price", "createdAt"}
IntFields == {"id", "publishYear", "price"}

\* x.get(sort_by, ''): the field's value, the empty string when absent
SortKey(x, sort_by) ==
    IF ~Has(x, sort_by) THEN PyStr(<<>>)
    ELSE IF sort_by \in IntFields THEN PyInt(x[sort_by]) ELSE PyStr(x[sort_by])

\* a < b on two strings
StrLess(a, b) ==
    \E k \in 1..Len(b) :
        /\ k <= Len(a) + 1
        /\ \A j \in 1..(k - 1) : a[j] = b[j]
        /\ (k = Len(a) + 1 \/ a[k] < b[k])

\* a < b on two keys of the same type
KeyLess(a, b) == IF a.t = "int" THEN a.v < b.v ELSE StrLess(a.v, b.v)

InsertAt(s, x, p) == SubSeq(s, 1, p) \o <<x>> \o SubSeq(s, p + 1, Len(s))

\* x put into the sorted sequence s behind every element not greater than it
InsertSorted(s, x, f) ==
    InsertAt(s, x, Cardinality({i \in 1..Len(s) :
                                   ~KeyLess(SortKey(x, f), SortKey(s[i], f))}))

\* a stable ascending sort by the key f
RECURSIVE StableSort(_, _)
StableSort(s, f) ==
    IF Len(s) = 0 THEN <<>>
    ELSE InsertSorted(StableSort(SubSeq(s, 1, Len(s) - 1), f), s[Len(s)], f)

\* sorted(bs, key=lambda x: x.get(f, ''), reverse=reverse): comparing a str
\* key with an int key is TypeError; reverse=True keeps records with equal
\* keys in input order (the list is reversed, sorted and reversed again)
Sorted(bs, f, reverse) ==
    IF Cardinality({SortKey(bs[i], f).t : i \in 1..Len(bs)}) > 1 THEN Raises("TypeError")
    ELSE IF reverse THEN Returns(Reverse(StableSort(Reverse(bs), f)))
    ELSE Returns(StableSort(bs, f))

sort_books(bs, sort_by, order) ==
    Sorted(bs, IF sort_by \in valid_fields THEN sort_by ELSE "id", order = "desc")

(***************************************************************************)
(* The inputs the model draws.                                             *)
(***************************************************************************)
\* all sequences over S of length at most n
SeqsUpTo(S, n) == UNION {[1..k -> S] : k \in 0..n}

\* Records handed to the engine: a sample book, a record with identifier 0
\* that is out of stock and has the first one's author, category and year,
\* and a book as create_book_v2 stores it.
BookPool ==
    {SampleBook(1),
     [SampleBook(6) EXCEPT !.id = 0, !.available = 0],
     NewBook(51, <<78, 101, 119, 32, 66, 111, 111, 107>>,
             <<65, 117, 116, 104, 111, 114, 32, 49>>, 2)}

\* identifiers to encode: those of the pool and two no record has
CursorIds == {b.id : b \in BookPool} \cup {99, -7}

\* text decoded from well-formed base64 that is not the JSON of a cursor:
\* [1], 5, not json, "id", {}, {"x": 1}, {"id": null}, {"id": true},
\* {"id": "a"}, and two bytes that are not UTF-8
OddPayloads ==
    {<<91, 49, 93>>, <<53>>, <<110, 111, 116, 32, 106, 115, 111, 110>>,
     <<34, 105, 100, 34>>, <<123, 125>>, <<123, 34, 120, 34, 58, 32, 49, 125>>,
     <<123, 34, 105, 100, 34, 58, 32, 110, 117, 108, 108, 125>>,
     <<123, 34, 105, 100, 34, 58, 32, 116, 114, 117, 101, 125>>,
     <<123, 34, 105, 100, 34, 58, 32, 34, 97, 34, 125>>,
     <<200, 65>>}

\* cursor arguments: no cursor, the empty string, every encoded identifier,
\* an encoding cut short (bad padding), one with a stray character and
\* surplus padding (which b64decode skips), text outside the alphabet, a
\* non-ASCII string, and the odd payloads
CursorTokens ==
    {None, PyStr(<<>>), PyStr(<<33, 33, 33>>), PyStr(<<97, 98, 99>>), PyStr(<<233>>)}
    \cup {PyStr(encode_cursor(id)) : id \in CursorIds}
    \cup {PyStr(SubSeq(encode_cursor(1), 1, 11)),
          PyStr(<<33>> \o encode_cursor(6) \o <<61, 61>>)}
    \cup {PyStr(B64Encode(t)) : t \in OddPayloads}

Limits == (-1)..MaxLimit
Offsets == (-1)..(MaxLen + 1)
Pages == 0..(MaxLen + 1)

SortArgs == valid_fields \cup {"isbn", "bogus"}
OrderArgs == {"asc", "desc", "DESC"}

\* queries: empty, 'book', 'TITLE 1', 'zzz', '1006'
Queries == {<<>>, <<98, 111, 111, 107>>, <<84, 73, 84, 76, 69, 32, 49>>,
            <<122, 122, 122>>, <<49, 48, 48, 54>>}

\* year bounds: absent, '', '2021', '2022', and the non-numeric 'abc', '12a'
NumericYears == {PyStr(<<50, 48, 50, 49>>), PyStr(<<50, 48, 50, 50>>)}
NonNumericYears == {PyStr(<<97, 98, 99>>), PyStr(<<49, 50, 97>>)}

\* filter specs with numeric or absent year bounds
ValidFilterSpecs ==
    {NoFilters,
     [NoFilters EXCEPT !.category = PyStr(Categories[2])],
     [NoFilters EXCEPT !.category = PyStr(Categories[5])],
     [NoFilters EXCEPT !.author = PyStr(<<97, 117, 116, 104, 111, 114, 32, 49>>)],
     [NoFilters EXCEPT !.author = PyStr(<<78, 111, 98, 111, 100, 121>>)],
     [NoFilters EXCEPT !.available = PyStr(<<84, 82, 85, 69>>)],
     [NoFilters EXCEPT !.available = PyStr(<<102, 97, 108, 115, 101>>)],
     [NoFilters EXCEPT !.minYear = PyStr(<<>>), !.maxYear = PyStr(<<50, 48, 50, 49>>)]}
    \cup {[NoFilters EXCEPT !.minYear = y] : y \in NumericYears}
    \cup {[NoFilters EXCEPT !.category = PyStr(Categories[2]), !.maxYear = y,
                            !.available = PyStr(<<116, 114, 117, 101>>)] : y \in NumericYears}

\* filter specs with a non-numeric year bound
BadYearFilterSpecs ==
    {[NoFilters EXCEPT !.minYear = y] : y \in NonNumericYears}
    \cup {[NoFilters EXCEPT !.maxYear = y] : y \in NonNumericYears}
    \cup {[NoFilters EXCEPT !.category = PyStr(Categories[5]), !.minYear = y] :
             y \in NonNumericYears}
    \cup {[NoFilters EXCEPT !.author = PyStr(<<78, 111, 98, 111, 100, 121>>), !.maxYear = y] :
             y \in NonNumericYears}

FilterSpecs == ValidFilterSpecs \cup BadYearFilterSpecs

(***************************************************************************)
(* The engine called directly: a record sequence is drawn, then each       *)
(* function is applied to it; op, args and res hold the last call.         *)
(***************************************************************************)
\* the request threads of the server; threads[t] is what thread t is doing:
\* pc is "idle", "loaded" (load_data has returned data) or "done" (the
\* response reply was sent)
Threads == {1, 2}
IdleThread == [pc |-> "idle", fn |-> "none", json |-> None, data |-> <<>>, reply |-> None]

\* no walk started, no write request in progress
Idle == /\ wmode = "idle"
        /\ wlimit = 0
        /\ wcursor = None
        /\ wvisited = <<>>
        /\ wdone = FALSE
        /\ wcalls = 0
        /\ threads = [t \in Threads |-> IdleThread]

Init == /\ books \in SeqsUpTo(BookPool, MaxLen)
        /\ op = "idle"
        /\ args = <<>>
        /\ res = <<>>
        /\ Idle

\* as Call, but sort_books orders the list it was given (items.sort()) before
\* returning it
Call_sorting_in_place(name, a, r) ==
    /\ op = "idle"
    /\ op' = name
    /\ args' = a
    /\ res' = r
    /\ books' = IF name = "sort_books" /\ r.err = "none" THEN r.v ELSE books
    /\ UNCHANGED <<walk, threads>>

\* a call is made when no call is in progress; the functions build their
\* results by slicing, list comprehensions and sorted(), and the read
\* endpoints only load the store, so the records stay as they were
Call(name, a, r) == /\ op = "idle"
                    /\ op' = name
                    /\ args' = a
                    /\ res' = r
                    /\ UNCHANGED <<books, threads, walk>>

CallEncodeCursor ==
    \E id \in CursorIds : Call("encode_cursor", [book_id |-> id], encode_cursor(id))

\* decode_cursor applied to the token the last encode_cursor returned
CallDecodeEncoded ==
    /\ op = "encode_cursor"
    /\ op' = "decode_cursor"
    /\ args' = [cursor |-> PyStr(res), book_id |-> PyInt(args.book_id)]
    /\ res' = decode_cursor(PyStr(res))
    /\ UNCHANGED <<books, threads, walk>>

CallDecodeCursor ==
    \E c \in CursorTokens :
        Call("decode_cursor", [cursor |-> c, book_id |-> None], decode_cursor(c))

CallPaginateOffset ==
    \E limit \in Limits, offset \in Offsets :
        Call("paginate_offset", [limit |-> limit, offset |-> offset],
             paginate_offset(books, limit, offset))

CallPaginatePage ==
    \E page \in Pages, size \in Limits :
        Call("paginate_page", [page |-> page, size |-> size],
             paginate_page(books, page, size))

CallPaginateCursor ==
    \E c \in CursorTokens, limit \in Limits :
        Call("paginate_cursor", [cursor |-> c, limit |-> limit],
             paginate_cursor(books, c, limit))

CallSortBooks ==
    \E sort_by \in SortArgs, order \in OrderArgs :
        Call("sort_books", [sort_by |-> sort_by, order |-> order],
             sort_books(books, sort_by, order))

CallSearchBooks ==
    \E q \in Queries : Call("search_books", [query |-> q], search_books(books, q))

CallFilterBooks ==
    \E f \in FilterSpecs : Call("filter_books", [filters |-> f], filter_books(books, f))

\* search then filter, and filter then search, on the same records; an
\* exception raised by the first call is the outcome of the composition
FilterOf(s, f) == IF s.err # "none" THEN s ELSE filter_books(s.v, f)
SearchOf(fl, q) == IF fl.err # "none" THEN fl ELSE search_books(fl.v, q)

CallSearchAndFilter ==
    \E q \in Queries, f \in FilterSpecs :
        Call("search_and_filter", [query |-> q, filters |-> f],
             [search |-> search_books(books, q),
              filter |-> filter_books(books, f),
              filter_of_search |-> FilterOf(search_books(books, q), f),
              search_of_filter |-> SearchOf(filter_books(books, f), q)])

\* the call returns to its caller
Return == /\ op \notin {"idle"}
          /\ op' = "idle"
          /\ args' = <<>>
          /\ res' = <<>>
          /\ UNCHANGED <<books, threads, walk>>

Next == \/ CallEncodeCursor
        \/ CallDecodeEncoded
        \/ CallDecodeCursor
        \/ CallPaginateOffset
        \/ CallPaginatePage
        \/ CallPaginateCursor
        \/ CallSortBooks
        \/ CallSearchBooks
        \/ CallFilterBooks
        \/ CallSearchAndFilter
        \/ Return

Spec == Init /\ [][Next]_vars

(***************************************************************************)
(* A client walking the pages of a fixed record sequence: in offset mode   *)
(* it asks for offset 0, limit, 2*limit, ... up to totalPages pages; in    *)
(* cursor mode it starts without a cursor and follows nextCursor.          *)
(***************************************************************************)
StartOffsetWalk ==
    \E limit \in 1..MaxLimit :
        /\ wmode = "idle"
        /\ wmode' = "offset"
        /\ wlimit' = limit
        /\ wdone' = (paginate_offset(books, limit, 0).pagination.totalPages = 0)
        /\ UNCHANGED <<books, threads, call, wcursor, wvisited, wcalls>>

OffsetWalkStep ==
    /\ wmode = "offset"
    /\ ~wdone
    /\ wvisited' = wvisited \o paginate_offset(books, wlimit, wcalls * wlimit).data
    /\ wcalls' = wcalls + 1
    /\ wdone' = (wcalls + 1 >=
                 paginate_offset(books, wlimit, wcalls * wlimit).pagination.totalPages)
    /\ UNCHANGED <<books, threads, call, wmode, wlimit, wcursor>>

StartCursorWalk ==
    \E limit \in 1..MaxLimit :
        /\ wmode = "idle"
        /\ wmode' = "cursor"
        /\ wlimit' = limit
        /\ UNCHANGED <<books, threads, call, wcursor, wvisited, wdone, wcalls>>

\* the client takes the page r and keeps its nextCursor
CursorWalkTakes(r) ==
    /\ wvisited' = wvisited \o r.data
    /\ wcalls' = wcalls + 1
    /\ wdone' = ~r.pagination.hasNext
    /\ wcursor' = r.pagination.nextCursor

CursorWalkStep ==
    /\ wmode = "cursor"
    /\ ~wdone
    /\ wcalls < MaxCalls
    /\ CursorWalkTakes(paginate_cursor(books, wcursor, wlimit))
    /\ UNCHANGED <<books, threads, call, wmode, wlimit>>

NextWalk == \/ StartOffsetWalk
            \/ OffsetWalkStep
            \/ StartCursorWalk
            \/ CursorWalkStep

SpecWalk == Init /\ [][NextWalk]_vars

(***************************************************************************)
(* The read endpoints.  A query parameter is None when absent, else the    *)
(* text given; sort and order are field and direction names.  A response   *)
(* is its status, its body, and the pagination call the handler made       *)
(* (engine), None when the handler did not get that far.                   *)
(***************************************************************************)
\* int(request.args.get(name, default))
IntArg(p, default) ==
    IF p.t = "None" THEN [ok |-> TRUE, v |-> default] ELSE IntParse(p.v)

\* request.args.get(name, default) for a name
NameArg(p, default) == IF p = "absent" THEN default ELSE p

\* as ClampLimit, but with max for min
ClampLimit_max(n) == Max(n, 100)

\* min(int(...), 100), max(int(...), 0), max(int(...), 1)
ClampLimit(n) == Min(n, 100)
ClampOffset(n) == Max(n, 0)
ClampPage(n) == Max(n, 1)

\* except ValueError: 400; except Exception: 500
Failed(err) ==
    [status |-> IF err = "ValueError" THEN 400 ELSE 500, body |-> err, engine |-> None]

Ok200(body, engine) == [status |-> 200, body |-> body, engine |-> engine]

OffsetPaginated(sorted, limit, offset) ==
    IF sorted.err # "none" THEN Failed(sorted.err)
    ELSE Ok200(paginate_offset(sorted.v, limit, offset),
               [fn |-> "paginate_offset", limit |-> limit, offset |-> offset])

\* GET /api/books on the stored books
api_get_books_offset(stored, q) ==
    IF ~IntArg(q.limit, 10).ok \/ ~IntArg(q.offset, 0).ok THEN Failed("ValueError")
    ELSE OffsetPaginated(sort_books(stored, NameArg(q.sort, "id"), NameArg(q.order, "asc")),
                         ClampLimit(IntArg(q.limit, 10).v),
                         ClampOffset(IntArg(q.offset, 0).v))

PagePaginated(sorted, page, size) ==
    IF sorted.err # "none" THEN Failed(sorted.err)
    ELSE Ok200(paginate_page(sorted.v, page, size),
               [fn |-> "paginate_page", page |-> page, size |-> size])

\* GET /api/books/pages
api_get_books_pages(stored, q) ==
    IF ~IntArg(q.page, 1).ok \/ ~IntArg(q.size, 10).ok THEN Failed("ValueError")
    ELSE PagePaginated(sort_books(stored, NameArg(q.sort, "id"), NameArg(q.order, "asc")),
                       ClampPage(IntArg(q.page, 1).v),
                       ClampLimit(IntArg(q.size, 10).v))

CursorPaginated(sorted, cursor, limit) ==
    IF sorted.err # "none" THEN Failed(sorted.err)
    ELSE Ok200(paginate_cursor(sorted.v, cursor, limit),
               [fn |-> "paginate_cursor", cursor |-> cursor, limit |-> limit])

\* GET /api/books/cursor
api_get_books_cursor(stored, q) ==
    IF ~IntArg(q.limit, 10).ok THEN Failed("ValueError")
    ELSE CursorPaginated(sort_books(stored, NameArg(q.sort, "id"), NameArg(q.order, "asc")),
                         q.cursor, ClampLimit(IntArg(q.limit, 10).v))

\* str.strip()
RECURSIVE Strip(_)
Strip(s) == IF Len(s) > 0 /\ IsWs(s[1]) THEN Strip(Tail(s))
            ELSE IF Len(s) > 0 /\ IsWs(s[Len(s)]) THEN Strip(SubSeq(s, 1, Len(s) - 1))
            ELSE s

\* request.args.get('q', '').strip()
QueryArg(p) == IF p.t = "None" THEN <<>> ELSE Strip(p.v)

\* the page of the sorted matches with the search block added to it
SearchPaginated(sorted, query, filters, limit, offset) ==
    IF sorted.err # "none" THEN Failed(sorted.err)
    ELSE Ok200([page |-> paginate_offset(sorted.v, limit, offset),
                search |-> [query |-> query,
                            filters |-> {k \in FilterKeys : Truthy(filters[k])},
                            resultsFound |-> Len(sorted.v)]],
               [fn |-> "paginate_offset", limit |-> limit, offset |-> offset])

SearchSorted(filtered, q, query, limit, offset) ==
    IF filtered.err # "none" THEN Failed(filtered.err)
    ELSE SearchPaginated(sort_books(filtered.v, NameArg(q.sort, "id"), NameArg(q.order, "asc")),
                         query, q.filters, limit, offset)

SearchFiltered(found, q, query, limit, offset) ==
    IF found.err # "none" THEN Failed(found.err)
    ELSE SearchSorted(filter_books(found.v, q.filters), q, query, limit, offset)

\* GET /api/search
api_search_books(stored, q) ==
    IF ~IntArg(q.limit, 10).ok \/ ~IntArg(q.offset, 0).ok THEN Failed("ValueError")
    ELSE SearchFiltered(search_books(stored, QueryArg(q.q)), q, QueryArg(q.q),
                        ClampLimit(IntArg(q.limit, 10).v),
                        ClampOffset(IntArg(q.offset, 0).v))

\* number of sample books the stores of the model are drawn from
MaxSample == 3

\* The sample books, then a book created after them (its id is the largest
\* id plus one); deleting books leaves any subsequence of these.
StoreBase ==
    [i \in 1..MaxSample |-> SampleBook(i)]
    \o <<NewBook(MaxSample + 1, <<78, 101, 119, 32, 66, 111, 111, 107>>,
                 <<78, 111, 98, 111, 100, 121>>, 2)>>

RECURSIVE Pick(_, _, _)
Pick(s, keep, i) ==
    IF i > Len(s) THEN <<>>
    ELSE (IF i \in keep THEN <<s[i]>> ELSE <<>>) \o Pick(s, keep, i + 1)

Stores == {Pick(StoreBase, keep, 1) : keep \in SUBSET (1..Len(StoreBase))}

\* limit / size: absent, '0', '-5', '2', '101', '150', 'abc'
LimitArgs == {None, PyStr(<<48>>), PyStr(<<45, 53>>), PyStr(<<50>>),
              PyStr(<<49, 48, 49>>), PyStr(<<49, 53, 48>>), PyStr(<<97, 98, 99>>)}
\* offset: absent, '-1', '1', 'x'
OffsetArgs == {None, PyStr(<<45, 49>>), PyStr(<<49>>), PyStr(<<120>>)}
\* page: absent, '0', '-1', '2', 'x'
PageArgs == {None, PyStr(<<48>>), PyStr(<<45, 49>>), PyStr(<<50>>), PyStr(<<120>>)}
SortParams == {"absent", "price", "title"}
OrderParams == {"absent", "desc"}
\* cursor: absent, the cursor of book 1, of a book not stored, 'abc'
CursorArgs == {None, PyStr(encode_cursor(1)), PyStr(encode_cursor(99)),
               PyStr(<<97, 98, 99>>)}
\* q: absent, ' book ', 'zzz'
QueryArgs == {None, PyStr(<<32, 98, 111, 111, 107, 32>>), PyStr(<<122, 122, 122>>)}
SearchFilterArgs ==
    {NoFilters,
     [NoFilters EXCEPT !.category = PyStr(Categories[2])],
     [NoFilters EXCEPT !.minYear = PyStr(<<50, 48, 50, 49>>)],
     [NoFilters EXCEPT !.minYear = PyStr(<<97, 98, 99>>)],
     [NoFilters EXCEPT !.category = PyStr(Categories[1]),
                       !.maxYear = PyStr(<<49, 50, 97>>)]}

InitApi == /\ books \in Stores
           /\ op = "idle"
           /\ args = <<>>
           /\ res = <<>>
           /\ Idle

GetBooksOffset ==
    \E l \in LimitArgs, o \in OffsetArgs, s \in SortParams, d \in OrderParams :
        Call("api_get_books_offset", [limit |-> l, offset |-> o, sort |-> s, order |-> d],
             api_get_books_offset(books,
                                  [limit |-> l, offset |-> o, sort |-> s, order |-> d]))

GetBooksPages ==
    \E p \in PageArgs, z \in LimitArgs, s \in SortParams, d \in OrderParams :
        Call("api_get_books_pages", [page |-> p, size |-> z, sort |-> s, order |-> d],
             api_get_books_pages(books,
                                 [page |-> p, size |-> z, sort |-> s, order |-> d]))

GetBooksCursor ==
    \E c \in CursorArgs, l \in LimitArgs, s \in SortParams, d \in OrderParams :
        Call("api_get_books_cursor", [cursor |-> c, limit |-> l, sort |-> s, order |-> d],
             api_get_books_cursor(books,
                                  [cursor |-> c, limit |-> l, sort |-> s, order |-> d]))

SearchBooks ==
    \E t \in QueryArgs, f \in SearchFilterArgs, l \in LimitArgs, o \in OffsetArgs,
       s \in {"absent", "price"} :
        Call("api_search_books",
             [q |-> t, filters |-> f, limit |-> l, offset |-> o, sort |-> s,
              order |-> "absent"],
             api_search_books(books,
                              [q |-> t, filters |-> f, limit |-> l, offset |-> o,
                               sort |-> s, order |-> "absent"]))

NextApi == \/ GetBooksOffset
           \/ GetBooksPages
           \/ GetBooksCursor
           \/ SearchBooks
           \/ Return

SpecApi == InitApi /\ [][NextApi]_vars

(***************************************************************************)
(* Every read operation on a store: the engine functions called with the  *)
(* stored records and the read endpoints, in any order.                   *)
(***************************************************************************)
InitRead == InitApi

NextRead == \/ CallPaginateOffset
            \/ CallPaginatePage
            \/ CallPaginateCursor
            \/ CallSortBooks
            \/ CallSearchBooks
            \/ CallFilterBooks
            \/ GetBooksOffset
            \/ GetBooksPages
            \/ GetBooksCursor
            \/ SearchBooks
            \/ Return

SpecRead == InitRead /\ [][NextRead]_vars

(***************************************************************************)
(* The write endpoints.  request.json is a record: keys is the set of      *)
(* keys the JSON object has, and a key it lacks holds None; the titles    *)
(* and authors given are text.  A handler's                               *)
(* outcome is its status, the book it answers with, and the data it        *)
(* handed to save_data (saved tells whether it got that far).              *)
(***************************************************************************)
Saved(status, data, book) ==
    [status |-> status, book |-> book, data |-> data, saved |-> TRUE]

\* an error response: the handler returned, or raised, before save_data
NotSaved(status) == [status |-> status, book |-> None, data |-> <<>>, saved |-> FALSE]

\* as max_id, but the number of books (len(data['books']))
max_id_count(bs) == Len(bs)

\* max([b['id'] for b in data['books']], default=0)
max_id(bs) ==
    IF Len(bs) = 0 THEN 0
    ELSE CHOOSE m \in {bs[i].id : i \in 1..Len(bs)} : \A i \in 1..Len(bs) : bs[i].id <= m

\* int(v) of a JSON value: an integer is itself, text is parsed, and
\* anything else (None) is TypeError
IntOf(v) ==
    IF v.t = "int" THEN [ok |-> TRUE, v |-> v.v]
    ELSE IF v.t = "str" THEN IntParse(v.v)
    ELSE [ok |-> FALSE]

\* new_book is built, appended to data['books'] and saved; int() raising
\* ends the request with 500 before anything is saved
Created(data, title, author, quantity) ==
    IF ~quantity.ok THEN NotSaved(500)
    ELSE Saved(201,
               Append(data, NewBook(max_id(data) + 1, title, author, quantity.v)),
               NewBook(max_id(data) + 1, title, author, quantity.v))

\* POST /api/books on the loaded data
create_book_v1(data, json) ==
    IF json.keys = {} THEN NotSaved(400)
    ELSE IF ~({"book_title", "book_author", "total_quantity"} \subseteq json.keys)
    THEN NotSaved(400)
    ELSE Created(data, json.book_title.v, json.book_author.v, IntOf(json.total_quantity))

\* POST /api/v2/books on the loaded data
create_book_v2(data, json) ==
    IF json.keys = {} THEN NotSaved(400)
    ELSE IF ~({"title", "author", "quantity"} \subseteq json.keys) THEN NotSaved(400)
    ELSE Created(data, json.title.v, json.author.v, IntOf(json.quantity))

\* position of the first book with the identifier, 0 if there is none
\* (next((b for b in data['books'] if b['id'] == book_id), None))
FindBook(data, book_id) ==
    FirstOrZero({i \in 1..Len(data) : data[i].id = book_id})

\* book['quantity'] = new_qty; book['available'] += (new_qty - old_qty)
WithQuantity(book, new_qty) ==
    [book EXCEPT !.quantity = new_qty,
                 !.available = book.available + (new_qty - book.quantity)]

WithTitle(book, json) ==
    IF "title" \in json.keys THEN [book EXCEPT !.title = json.title.v] ELSE book

WithAuthor(book, json) ==
    IF "author" \in json.keys THEN [book EXCEPT !.author = json.author.v] ELSE book

\* the fields the request gives are written to the book, then data is saved
UpdatedBook(book, json) ==
    IF "quantity" \in json.keys
    THEN WithQuantity(WithAuthor(WithTitle(book, json), json), IntOf(json.quantity).v)
    ELSE WithAuthor(WithTitle(book, json), json)

UpdateAt(data, i, json) ==
    IF "quantity" \in json.keys /\ ~IntOf(json.quantity).ok THEN NotSaved(500)
    ELSE Saved(200, [data EXCEPT ![i] = UpdatedBook(data[i], json)],
               UpdatedBook(data[i], json))

\* PUT /api/v2/books/<book_id> on the loaded data
update_book_v2(data, book_id, json) ==
    IF FindBook(data, book_id) = 0 THEN NotSaved(404)
    ELSE UpdateAt(data, FindBook(data, book_id), json)

\* [b for b in data['books'] if b['id'] != book_id]
Without(data, book_id) == SelectSeq(data, LAMBDA b : b.id # book_id)

\* DELETE /api/v2/books/<book_id> on the loaded data
delete_book_v2(data, book_id) ==
    IF FindBook(data, book_id) = 0 THEN NotSaved(404)
    ELSE Saved(200, Without(data, book_id), None)

\* the store the write requests start from: the first sample books of init_data
SampleStore == [i \in 1..MaxStored |-> SampleBook(i)]

\* quantities given as non-negative integers; 'abc', which is not one
Quantities == {PyInt(n) : n \in 0..MaxQuantity}
OtherQuantities == {PyStr(<<97, 98, 99>>)}

\* bodies of POST /api/books: {}, one without total_quantity, complete ones
V1Bodies(Q) ==
    {[keys |-> {}, book_title |-> None, book_author |-> None, total_quantity |-> None],
     [keys |-> {"book_title", "book_author"}, book_title |-> PyStr(<<84, 49>>),
      book_author |-> PyStr(<<65, 49>>), total_quantity |-> None]}
    \cup {[keys |-> {"book_title", "book_author", "total_quantity"},
           book_title |-> PyStr(<<84, 49>>), book_author |-> PyStr(<<65, 49>>),
           total_quantity |-> q] : q \in Q}

\* bodies of POST /api/v2/books: {}, one without author, complete ones
V2Bodies(Q) ==
    {[keys |-> {}, title |-> None, author |-> None, quantity |-> None],
     [keys |-> {"title", "quantity"}, title |-> PyStr(<<84, 49>>), author |-> None,
      quantity |-> PyInt(1)]}
    \cup {[keys |-> {"title", "author", "quantity"}, title |-> PyStr(<<84, 49>>),
           author |-> PyStr(<<65, 49>>), quantity |-> q] : q \in Q}

\* bodies of PUT: {}, a new title and author, a new quantity
UpdateBodies(Q) ==
    {[keys |-> {}, title |-> None, author |-> None, quantity |-> None],
     [keys |-> {"title", "author"}, title |-> PyStr(<<84, 49>>), author |-> PyStr(<<65, 49>>),
      quantity |-> None]}
    \cup {[keys |-> {"quantity"}, title |-> None, author |-> None, quantity |-> q] :
             q \in Q}

\* the <int:book_id> of the URL: 0, which no book of the model has, and the
\* identifiers a store of the model can hold
BookIds == 0..(MaxStored + 1)

\* A request handled from its first statement to its response while no
\* other request runs: the store is what save_data wrote, if it was called.
Request(name, a, r) ==
    /\ op = "idle"
    /\ op' = name
    /\ args' = a
    /\ res' = r
    /\ books' = IF r.saved THEN r.data ELSE books
    /\ UNCHANGED <<walk, threads>>

\* (the model follows creates while the store and its identifiers are small)
PostBooksV1(Q) ==
    /\ Len(books) <= MaxStored
    /\ max_id(books) <= MaxStored
    /\ \E json \in V1Bodies(Q) :
        Request("create_book_v1", [json |-> json], create_book_v1(books, json))

PostBooksV2(Q) ==
    /\ Len(books) <= MaxStored
    /\ max_id(books) <= MaxStored
    /\ \E json \in V2Bodies(Q) :
        Request("create_book_v2", [json |-> json], create_book_v2(books, json))

PutBookV2(Q) ==
    \E book_id \in BookIds, json \in UpdateBodies(Q) :
        Request("update_book_v2", [book_id |-> book_id, json |-> json],
                update_book_v2(books, book_id, json))

DeleteBookV2 ==
    \E book_id \in BookIds :
        Request("delete_book_v2", [book_id |-> book_id], delete_book_v2(books, book_id))

InitStore == /\ books = SampleStore
             /\ op = "idle"
             /\ args = <<>>
             /\ res = <<>>
             /\ Idle

\* create, update and delete requests, one at a time
NextStore == \/ PostBooksV1(Quantities \cup OtherQuantities)
             \/ PostBooksV2(Quantities \cup OtherQuantities)
             \/ PutBookV2(Quantities \cup OtherQuantities)
             \/ DeleteBookV2
             \/ Return

SpecStore == InitStore /\ [][NextStore]_vars

\* create and update requests whose quantities are non-negative integers,
\* one at a time
NextStock == \/ PostBooksV1(Quantities)
             \/ PostBooksV2(Quantities)
             \/ PutBookV2(Quantities)
             \/ Return

SpecStock == InitStore /\ [][NextStock]_vars

(***************************************************************************)
(* Two create requests served by two threads of the server.  A thread     *)
(* validates the body and calls load_data in one step, and builds the     *)
(* new book from the data it loaded, calls save_data and answers in        *)
(* another; the steps of the two threads interleave in any order.          *)
(***************************************************************************)
create_book(fn, data, json) ==
    IF fn = "create_book_v1" THEN create_book_v1(data, json) ELSE create_book_v2(data, json)

\* the thread after validation: answered with 400, or holding the loaded data
Validated(fn, json, stored) ==
    IF create_book(fn, stored, json).status = 400
    THEN [pc |-> "done", fn |-> fn, json |-> json, data |-> <<>>,
          reply |-> create_book(fn, stored, json)]
    ELSE [pc |-> "loaded", fn |-> fn, json |-> json, data |-> stored, reply |-> None]

Receives(t, fn, json) ==
    /\ threads[t].pc = "idle"
    /\ threads' = [threads EXCEPT ![t] = Validated(fn, json, books)]
    /\ UNCHANGED <<books, call, wmode, wlimit, wcursor, wvisited, wdone, wcalls>>

\* request received, body validated, data = load_data()
CreateLoads ==
    \E t \in Threads :
        \/ \E json \in V1Bodies(Quantities) : Receives(t, "create_book_v1", json)
        \/ \E json \in V2Bodies(Quantities) : Receives(t, "create_book_v2", json)

Answers(t, r) ==
    /\ threads' = [threads EXCEPT ![t].pc = "done", ![t].reply = r]
    /\ books' = IF r.saved THEN r.data ELSE books
    /\ UNCHANGED <<call, wmode, wlimit, wcursor, wvisited, wdone, wcalls>>

\* new_book built from the loaded data, save_data(data), 201
CreateSaves ==
    \E t \in Threads :
        /\ threads[t].pc = "loaded"
        /\ Answers(t, create_book(threads[t].fn, threads[t].data, threads[t].json))

NextConcurrent == \/ CreateLoads
                  \/ CreateSaves

SpecConcurrent == InitStore /\ [][NextConcurrent]_vars

(***************************************************************************)
(* Properties.                                                             *)
(***************************************************************************)
IsPrefix(s, t) == Len(s) <= Len(t) /\ s = SubSeq(t, 1, Len(s))

DistinctIds(s) == \A i, j \in 1..Len(s) : i # j => s[i].id # s[j].id

\* C1: on records with pairwise distinct integer identifiers, the cursor
\* walk visits the records once each, in order: what it has visited is
\* always an initial part of the sequence, and it is the whole sequence
\* when the walk has ended with hasNext = false.
C1_CursorContinuation ==
    (wmode = "cursor" /\ DistinctIds(books)) =>
        /\ IsPrefix(wvisited, books)
        /\ (wdone => wvisited = books)

\* C2: for every limit >= 1 the pages at offsets 0, limit, 2*limit, ... up
\* to totalPages pages, concatenated, are the original sequence: every
\* part walked so far is an initial part of it and the finished walk is
\* all of it.
C2_OffsetCoverage ==
    wmode = "offset" =>
        /\ IsPrefix(wvisited, books)
        /\ (wdone => wvisited = books)

\* C2 witness: a walk of two pages, the second one short, has finished
C2_Witness ==
    /\ wmode = "offset"
    /\ wdone
    /\ wlimit = 2
    /\ wcalls = 2
    /\ Len(books) = 3

ApiOps == {"api_get_books_offset", "api_get_books_pages", "api_get_books_cursor",
           "api_search_books"}

\* the limit / size parameter of a request, and whether it is an integer
RequestedLimit == IF op = "api_get_books_pages" THEN args.size ELSE args.limit
IsIntArg(p) == p.t = "str" /\ IntParse(p.v).ok

\* the limit / size the handler gave the pagination function
EngineLimit == IF res.engine.fn = "paginate_page" THEN res.engine.size
               ELSE res.engine.limit

\* C3: at every paginating endpoint the limit / size handed to the
\* pagination function is at least 1, whatever integer the request gave,
\* and so is the page handed to paginate_page.
C3_LimitLowerBound ==
    (op \in ApiOps /\ res.engine # None) =>
        /\ EngineLimit >= 1
        /\ (res.engine.fn = "paginate_page" => res.engine.page >= 1)

\* C4: at every paginating endpoint a requested limit / size above 100 is
\* paginated with exactly 100, and a requested offset below 0 with exactly 0.
C4_ClampCorrectness ==
    (op \in ApiOps /\ res.engine # None) =>
        /\ (IsIntArg(RequestedLimit) /\ IntParse(RequestedLimit.v).v > 100)
               => EngineLimit = 100
        /\ (op \in {"api_get_books_offset", "api_search_books"}
            /\ IsIntArg(args.offset) /\ IntParse(args.offset.v).v < 0)
               => res.engine.offset = 0

\* C4 witness: GET /api/books?limit=150&offset=-1 answered with a page
C4_Witness ==
    /\ op = "api_get_books_offset"
    /\ args.limit = PyStr(<<49, 53, 48>>)
    /\ args.offset = PyStr(<<45, 49>>)
    /\ res.status = 200
    /\ Len(res.body.data) = 3

MatchesNoRecord ==
    \A i \in 1..Len(books) : ~IdEquals(books[i].id, decode_cursor(args.cursor).v)

\* C6: paginate_cursor with a cursor that is undecodable or matches no
\* record returns what it returns without a cursor: the page starts at
\* position 0, hasPrev is false and prevCursor absent.
C6_CursorFallback ==
    (op = "paginate_cursor" /\ MatchesNoRecord) =>
        /\ res = paginate_cursor(books, None, args.limit)
        /\ res.pagination.hasPrev = FALSE
        /\ res.pagination.prevCursor = None
        /\ (args.limit >= 1 => res.data = SubSeq(books, 1, Min(args.limit, Len(books))))

\* C6 witness: the cursor of an id no record has, on two records, limit 1
C6_Witness ==
    /\ op = "paginate_cursor"
    /\ args.cursor = PyStr(encode_cursor(99))
    /\ args.limit = 1
    /\ Len(books) = 2
    /\ res.pagination.hasNext

Perms(n) == {p \in [1..n -> 1..n] : \A i, j \in 1..n : i # j => p[i] # p[j]}

\* r is s reordered by ascending (descending) key f, equal keys in s's order
StablySorted(r, s, f, desc) ==
    \E p \in Perms(Len(s)) :
        /\ r = [i \in 1..Len(s) |-> s[p[i]]]
        /\ \A i, j \in 1..Len(s) : i < j =>
            /\ IF desc THEN ~KeyLess(SortKey(r[i], f), SortKey(r[j], f))
                       ELSE ~KeyLess(SortKey(r[j], f), SortKey(r[i], f))
            /\ (SortKey(r[i], f) = SortKey(r[j], f) => p[i] < p[j])

\* C7: for every record sequence, sort field and direction, sort_books
\* returns a permutation of its input ordered by the field (by id when the
\* field is not a valid one), records with equal keys in input order.
C7_SortStable ==
    op = "sort_books" =>
        /\ res.err = "none"
        /\ StablySorted(res.v, books,
                        IF args.sort_by \in valid_fields THEN args.sort_by ELSE "id",
                        args.order = "desc")

InSeq(x, s) == \E i \in 1..Len(s) : s[i] = x

\* C8: with numeric or absent year bounds, filtering the search result and
\* searching the filter result have the same outcome, and it is the records
\* that are in both the search result and the filter result.
C8_FilterComposition ==
    (op = "search_and_filter" /\ args.filters \in ValidFilterSpecs) =>
        /\ res.filter_of_search = res.search_of_filter
        /\ (res.search.err = "none" /\ res.filter.err = "none") =>
              res.filter_of_search =
                  Returns(SelectSeq(books, LAMBDA b : InSeq(b, res.search.v)
                                                      /\ InSeq(b, res.filter.v)))

\* C9: for page >= 1 and size >= 1, paginate_page returns the data of
\* paginate_offset at offset (page - 1) * size, its total as totalElements,
\* its totalPages (the ceiling of total / size) and its currentPage as number.
C9_PageIsOffset ==
    (op = "paginate_page" /\ args.page >= 1 /\ args.size >= 1) =>
        LET o == paginate_offset(books, args.size, (args.page - 1) * args.size) IN
        /\ res.data = o.data
        /\ res.page.totalElements = o.pagination.total
        /\ res.page.totalPages = o.pagination.totalPages
        /\ res.page.totalPages * args.size >= Len(books)
        /\ (res.page.totalPages - 1) * args.size < Len(books)
        /\ res.page.number = o.pagination.currentPage

\* C9 witness: page 2 of size 2 over three records holds the third
C9_Witness ==
    /\ op = "paginate_page"
    /\ args.page = 2
    /\ args.size = 2
    /\ Len(books) = 3
    /\ res.data = <<books[3]>>

\* C10: filter_books with a non-empty non-numeric minYear or maxYear signals
\* an error instead of returning a result, whatever the record sequence.
C10_BadYearRejected ==
    (op = "filter_books" /\ args.filters \in BadYearFilterSpecs) => res.err # "none"

\* C11: for limit >= 1 and offset >= 0, paginate_offset reports total = the
\* number of records, currentPage = floor(offset / limit) + 1 (the page
\* whose range of offsets holds offset) and totalPages = ceil(total / limit)
\* (the least number of pages of limit records that hold them all); for
\* limit <= 0 it reports currentPage = 1 and totalPages = 1.
C11_OffsetMetadata ==
    op = "paginate_offset" =>
        /\ (args.limit >= 1 /\ args.offset >= 0) =>
            /\ res.pagination.total = Len(books)
            /\ (res.pagination.currentPage - 1) * args.limit <= args.offset
            /\ args.offset < res.pagination.currentPage * args.limit
            /\ res.pagination.totalPages * args.limit >= Len(books)
            /\ (res.pagination.totalPages - 1) * args.limit < Len(books)
        /\ args.limit <= 0 =>
            /\ res.pagination.currentPage = 1
            /\ res.pagination.totalPages = 1

\* C11 witness: three records, limit 2, offset 3: page 2 of 2
C11_Witness ==
    /\ op = "paginate_offset"
    /\ args.limit = 2
    /\ args.offset = 3
    /\ Len(books) = 3
    /\ res.pagination.currentPage = 2
    /\ res.pagination.totalPages = 2

\* C12: for limit >= 1, paginate_cursor returns at most limit records, those
\* from its start position on; hasNext is true exactly when a record follows
\* the last one returned; with hasNext, nextCursor is present and decodes to
\* the identifier of the last record of data; without, nextCursor is absent.
C12_HasNext ==
    (op = "paginate_cursor" /\ args.limit >= 1) =>
        LET s == StartIndex(books, args.cursor)
            n == Len(res.data)
        IN  /\ n <= args.limit
            /\ res.data = SubSeq(books, s + 1, s + n)
            /\ res.pagination.hasNext = (s + n < Len(books))
            /\ res.pagination.hasNext =>
                /\ n > 0
                /\ res.pagination.nextCursor # None
                /\ decode_cursor(res.pagination.nextCursor) = Returns(PyInt(res.data[n].id))
            /\ ~res.pagination.hasNext => res.pagination.nextCursor = None

\* C12 witness: a page after a cursor, ending at the record with identifier
\* 0, with a record after it
C12_Witness ==
    /\ op = "paginate_cursor"
    /\ args.limit = 1
    /\ StartIndex(books, args.cursor) = 1
    /\ Len(books) = 3
    /\ res.data = <<books[2]>>
    /\ books[2].id = 0
    /\ res.pagination.hasNext
    /\ res.pagination.nextCursor = PyStr(encode_cursor(0))

\* C13: for every limit, paginate_cursor reports hasPrev = true exactly when
\* its start position is greater than 0; with hasPrev, prevCursor is present
\* and decodes to the identifier of the record just before the start
\* position; without, prevCursor is absent.  For limit >= 1 the page is the
\* records from the start position on.
C13_HasPrev ==
    op = "paginate_cursor" =>
        LET s == StartIndex(books, args.cursor) IN
        /\ res.pagination.hasPrev = (s > 0)
        /\ (args.limit >= 1 => IsPrefix(res.data, SubSeq(books, s + 1, Len(books))))
        /\ res.pagination.hasPrev =>
            /\ res.pagination.prevCursor # None
            /\ decode_cursor(res.pagination.prevCursor) = Returns(PyInt(books[s].id))
        /\ ~res.pagination.hasPrev => res.pagination.prevCursor = None

\* C13 witness: the cursor of the first of three records, the one with
\* identifier 0 among them: the page starts at position 1
C13_Witness ==
    /\ op = "paginate_cursor"
    /\ Len(books) = 3
    /\ \E i \in 1..3 : books[i].id = 0
    /\ args.cursor = PyStr(encode_cursor(books[1].id))
    /\ res.pagination.hasPrev
    /\ res.pagination.prevCursor = args.cursor
    /\ res.data # <<>>

\* C14: no call of sort_books, search_books, filter_books, paginate_offset,
\* paginate_page or paginate_cursor changes the record sequence it is given,
\* and no request to the offset, pages, cursor or search endpoint changes
\* the stored records.
C14_ReadOnly == [][books' = books]_vars

\* C14 witness: sort_books returned three records in another order than
\* the one they were given in
C14_Witness ==
    /\ op = "sort_books"
    /\ Len(books) = 3
    /\ res.err = "none"
    /\ res.v # books

\* C15: when two create requests have both been answered with 201, however
\* their load_data and save_data steps interleaved, the two books created
\* have distinct identifiers and both are in the store.
C15_NoLostCreate ==
    (\A t \in Threads : threads[t].pc = "done" /\ threads[t].reply.status = 201) =>
        /\ threads[1].reply.book.id # threads[2].reply.book.id
        /\ \A t \in Threads : InSeq(threads[t].reply.book, books)

\* the request answered in the step created a book
CreatedNow ==
    /\ op' \in {"create_book_v1", "create_book_v2"}
    /\ res'.status = 201

\* C16: a create, update or delete request on a store whose identifiers are
\* pairwise distinct leaves them pairwise distinct, and a created book is
\* appended with an identifier greater than every identifier the store held.
C16_IdsUnique ==
    [][DistinctIds(books) =>
          /\ DistinctIds(books')
          /\ CreatedNow =>
              /\ books' = Append(books, res'.book)
              /\ \A i \in 1..Len(books) : books[i].id < res'.book.id]_vars

\* C16 witness: after the first sample book was deleted, a created book got
\* the identifier after the largest one left
C16_Witness ==
    /\ op = "create_book_v2"
    /\ res.status = 201
    /\ Len(books) = MaxStored
    /\ books[1].id = 2
    /\ res.book.id = MaxStored + 1
    /\ books[Len(books)] = res.book

\* C17: from the sample store, after create and update requests whose
\* quantities are non-negative integers, every book has
\* 0 <= available <= quantity.
C17_StockInvariant ==
    \A i \in 1..Len(books) :
        0 <= books[i].available /\ books[i].available <= books[i].quantity

====
